---- MODULE Spec2Model ----
(***************************************************************************)
(* A model of the product backend in main.py: the three product handlers   *)
(* (list with auto-seed, create, get by id), the diagnostics handler, the  *)
(* document collection they share, and the request contexts that run them. *)
(*                                                                         *)
(* Text that the code slices, concatenates or parses (exception messages,  *)
(* identifiers in the URL path) is a sequence of one-character strings.    *)
(* Text that is only stored and returned (titles, categories) is a string. *)
(***************************************************************************)
EXTENDS Integers, Sequences, FiniteSets, TLC

\* ------------------------------------------------------------------ bounds
\* Request contexts (threads of the server's pool) that can be in flight.
NumProcs == 2
\* Documents the collection may hold when the server starts: what earlier
\* runs of it left there.
ExistingDocs == 23
\* Create requests the store accepts on top of what the collection held.
MaxNew == 2

\* ------------------------------------------------------ program constants
\* find().limit(24)
LIMIT == 24
\* collections[:10]
SHOWN == 10
\* str(e)[:50]
ERRLEN == 50

Procs == 1..NumProcs

\* ------------------------------------------------------------------- text
Min(a, b) == IF a <= b THEN a ELSE b

\* s[:n]
Take(s, n) == SubSeq(s, 1, Min(n, Len(s)))

\* ------------------------------------------------------------ JSON values
JStr(s) == [t |-> "str", v |-> s]
JNum(n) == [t |-> "num", v |-> n]
JFloat(n) == [t |-> "float", v |-> n]
JBool(b) == [t |-> "bool", v |-> b]
JNull == [t |-> "null"]
JOid(b) == [t |-> "oid", v |-> b]

\* Python truthiness of a value a document can hold: None, "", 0 and False
\* are falsy; an ObjectId is always truthy.
Truthy(x) ==
    CASE x.t = "null" -> FALSE
      [] x.t = "bool" -> x.v
      [] x.t \in {"num", "float"} -> x.v # 0
      [] x.t = "str" -> x.v # ""
      [] OTHER -> TRUE

\* --------------------------------------------------------------- ObjectId
\* A 12-byte value; str() renders it as 24 lowercase hexadecimal digits and
\* ObjectId(text) parses 24 hexadecimal digits of either case.
HexDigits == <<"0", "1", "2", "3", "4", "5", "6", "7",
               "8", "9", "a", "b", "c", "d", "e", "f">>
UpperDigits == <<"0", "1", "2", "3", "4", "5", "6", "7",
                 "8", "9", "A", "B", "C", "D", "E", "F">>
HexChars == {HexDigits[i] : i \in 1..16} \cup {UpperDigits[i] : i \in 1..16}

HexVal(c) ==
    CHOOSE n \in 0..15 : HexDigits[n + 1] = c \/ UpperDigits[n + 1] = c

\* str(oid)
OidStr(b) ==
    [i \in 1..(2 * Len(b)) |->
        IF i % 2 = 1 THEN HexDigits[(b[(i + 1) \div 2] \div 16) + 1]
                     ELSE HexDigits[(b[i \div 2] % 16) + 1]]

\* ObjectId.is_valid(text)
ObjectIdIsValid(s) == Len(s) = 24 /\ \A i \in 1..Len(s) : s[i] \in HexChars

\* ObjectId(text), for valid text
ObjectIdParse(s) ==
    [i \in 1..12 |-> 16 * HexVal(s[2 * i - 1]) + HexVal(s[2 * i])]

\* The identifier the store assigns to its n-th document: a fixed timestamp
\* and process part, then a 3-byte counter.
NewObjectId(n) ==
    <<101, 74, 177, 194, 222, 173, 190, 239, 1,
      (n \div 65536) % 256, (n \div 256) % 256, n % 256>>

\* ------------------------------------------------------- exception values
HTTPException(status, detail) ==
    [type |-> "HTTPException", status_code |-> status, detail |-> detail]
PyError(type, text) == [type |-> type, text |-> text]

IMPORT_ERROR == PyError("ImportError", <<"N", "o", " ", "m", "o", "d", "u", "l", "e", " ", "n", "a", "m", "e", "d", " ",
      "'", "d", "a", "t", "a", "b", "a", "s", "e", "'">>)
NONE_SUBSCRIPT == PyError("TypeError",
    <<"'", "N", "o", "n", "e", "T", "y", "p", "e", "'", " ", "o", "b", "j", "e", "c",
      "t", " ", "i", "s", " ", "n", "o", "t", " ", "s", "u", "b", "s", "c", "r", "i",
      "p", "t", "a", "b", "l", "e">>)
NOT_CONFIGURED == <<"D", "a", "t", "a", "b", "a", "s", "e", " ", "n", "o", "t", " ", "c", "o", "n",
      "f", "i", "g", "u", "r", "e", "d">>
INVALID_ID == <<"I", "n", "v", "a", "l", "i", "d", " ", "i", "d">>
NOT_FOUND == <<"N", "o", "t", " ", "f", "o", "u", "n", "d">>
INTERNAL_ERROR == <<"I", "n", "t", "e", "r", "n", "a", "l", " ", "S", "e", "r", "v", "e", "r", " ",
      "E", "r", "r", "o", "r">>

\* What a failing store call raises; its text is longer than ERRLEN.
StoreErrors == {
    PyError("ServerSelectionTimeoutError",
    <<"l", "o", "c", "a", "l", "h", "o", "s", "t", ":", "2", "7", "0", "1", "7", ":",
      " ", "[", "E", "r", "r", "n", "o", " ", "1", "1", "1", "]", " ", "C", "o", "n",
      "n", "e", "c", "t", "i", "o", "n", " ", "r", "e", "f", "u", "s", "e", "d", ",",
      " ", "T", "i", "m", "e", "o", "u", "t", ":", " ", "3", "0", "s">>) }

\* str(status_code), for the three-digit codes in use
StatusText(n) ==
    <<HexDigits[(n \div 100) + 1], HexDigits[((n \div 10) % 10) + 1],
      HexDigits[(n % 10) + 1]>>

\* str(e). An HTTPException renders as "<status>: <detail>" where the
\* framework defines __str__, and as the empty text where it does not (no
\* positional argument reaches Exception); the handlers run on either.
StrRenderings == {"status_detail", "empty"}
Str(e, rendering) ==
    IF e.type = "HTTPException"
    THEN IF rendering = "status_detail"
         THEN StatusText(e.status_code) \o <<":", " ">> \o e.detail
         ELSE <<>>
    ELSE e.text

\* ------------------------------------------------------- the request body
\* Mutant of ProductCreate: title declared Optional[str] = None.
ProductCreateTitleOptional == <<
    [name |-> "title", type |-> "optional_str", required |-> FALSE,
     default |-> JNull],
    [name |-> "description", type |-> "optional_str", required |-> FALSE,
     default |-> JNull],
    [name |-> "price", type |-> "float", required |-> TRUE],
    [name |-> "category", type |-> "str", required |-> TRUE],
    [name |-> "in_stock", type |-> "bool", required |-> FALSE,
     default |-> JBool(TRUE)],
    [name |-> "image", type |-> "optional_str", required |-> FALSE,
     default |-> JNull],
    [name |-> "badge", type |-> "optional_str", required |-> FALSE,
     default |-> JNull] >>

\* class ProductCreate: a field with no default is required.
ProductCreate == <<
    [name |-> "title", type |-> "str", required |-> TRUE],
    [name |-> "description", type |-> "optional_str", required |-> FALSE,
     default |-> JNull],
    [name |-> "price", type |-> "float", required |-> TRUE],
    [name |-> "category", type |-> "str", required |-> TRUE],
    [name |-> "in_stock", type |-> "bool", required |-> FALSE,
     default |-> JBool(TRUE)],
    [name |-> "image", type |-> "optional_str", required |-> FALSE,
     default |-> JNull],
    [name |-> "badge", type |-> "optional_str", required |-> FALSE,
     default |-> JNull] >>

FieldNames == {ProductCreate[i].name : i \in 1..Len(ProductCreate)}
FieldOf(name) ==
    ProductCreate[CHOOSE i \in 1..Len(ProductCreate) :
                      ProductCreate[i].name = name]

\* Whether a JSON value is accepted for a field's annotation.
TypeOk(type, x) ==
    CASE type = "str" -> x.t = "str"
      [] type = "optional_str" -> x.t \in {"str", "null"}
      [] type = "float" -> x.t = "num"
      [] type = "bool" -> x.t = "bool"

\* The value the validated model holds: a JSON number becomes a float.
Coerce(type, x) == IF type = "float" THEN JFloat(x.v) ELSE x

\* The fields of a JSON body that fail validation.
ValidationErrors(body) ==
    {f \in FieldNames :
        IF f \in DOMAIN body THEN ~TypeOk(FieldOf(f).type, body[f])
                             ELSE FieldOf(f).required}

\* The ProductCreate built from a valid body; fields the model does not
\* declare are dropped.
ParseProduct(body) ==
    [f \in FieldNames |->
        IF f \in DOMAIN body THEN Coerce(FieldOf(f).type, body[f])
                             ELSE FieldOf(f).default]

\* product.model_dump()
model_dump(product) == [f \in FieldNames |-> product[f]]

\* ---------------------------------------------------------- seed_products
\* Mutant of seed_products: the last record left out.
seed_products_three == <<
    [title |-> JStr("Aurora Cube Lamp"),
     description |->
        JStr("Futuristic RGB glass cube lamp with reactive glow."),
     price |-> JFloat(149), category |-> JStr("Lighting"),
     in_stock |-> JBool(TRUE),
     image |-> JStr("https://images.unsplash.com/photo-1557264337-e8a93017fe92?q=80&w=1200&auto=format&fit=crop"),
     badge |-> JStr("New")],
    [title |-> JStr("Nebula Headphones"),
     description |->
        JStr("Spatial audio with adaptive ANC in a sleek titanium finish."),
     price |-> JFloat(299), category |-> JStr("Audio"),
     in_stock |-> JBool(TRUE),
     image |-> JStr("https://images.unsplash.com/photo-1518444082625-79a48bb0faaa?q=80&w=1200&auto=format&fit=crop"),
     badge |-> JStr("Bestseller")],
    [title |-> JStr("Quantum Desk Mat"),
     description |->
        JStr("Soft-touch XL mat with nano-texture and underglow."),
     price |-> JFloat(59), category |-> JStr("Accessories"),
     in_stock |-> JBool(TRUE),
     image |-> JStr("https://images.unsplash.com/photo-1516387938699-a93567ec168e?q=80&w=1200&auto=format&fit=crop"),
     badge |-> JStr("Limited")] >>

seed_products == <<
    [title |-> JStr("Aurora Cube Lamp"),
     description |->
        JStr("Futuristic RGB glass cube lamp with reactive glow."),
     price |-> JFloat(149), category |-> JStr("Lighting"),
     in_stock |-> JBool(TRUE),
     image |-> JStr("https://images.unsplash.com/photo-1557264337-e8a93017fe92?q=80&w=1200&auto=format&fit=crop"),
     badge |-> JStr("New")],
    [title |-> JStr("Nebula Headphones"),
     description |->
        JStr("Spatial audio with adaptive ANC in a sleek titanium finish."),
     price |-> JFloat(299), category |-> JStr("Audio"),
     in_stock |-> JBool(TRUE),
     image |-> JStr("https://images.unsplash.com/photo-1518444082625-79a48bb0faaa?q=80&w=1200&auto=format&fit=crop"),
     badge |-> JStr("Bestseller")],
    [title |-> JStr("Quantum Desk Mat"),
     description |->
        JStr("Soft-touch XL mat with nano-texture and underglow."),
     price |-> JFloat(59), category |-> JStr("Accessories"),
     in_stock |-> JBool(TRUE),
     image |-> JStr("https://images.unsplash.com/photo-1516387938699-a93567ec168e?q=80&w=1200&auto=format&fit=crop"),
     badge |-> JStr("Limited")],
    [title |-> JStr("Flux Mechanical Keyboard"),
     description |->
        JStr("Hot-swappable switches, per-key RGB, aluminum chassis."),
     price |-> JFloat(189), category |-> JStr("Keyboards"),
     in_stock |-> JBool(TRUE),
     image |-> JStr("https://images.unsplash.com/photo-1517336714731-489689fd1ca8?q=80&w=1200&auto=format&fit=crop"),
     badge |-> JNull] >>

\* ------------------------------------------------- the product collection
\* db["product"]: its documents in the store's natural order, which for a
\* collection that is never updated or deleted from is insertion order.
None == JNull

\* count_documents({})
CountDocuments(coll) == Len(coll)

\* Mutant of InsertOne: an upsert keyed by title, which replaces the document
\* that already carries the title.
InsertOneUpsert(coll, doc) ==
    LET new == [k \in DOMAIN doc \cup {"_id"} |->
                   IF k = "_id" THEN JOid(NewObjectId(Len(coll) + 1))
                   ELSE doc[k]]
    IN  IF \E i \in 1..Len(coll) : coll[i]["title"] = doc["title"]
        THEN [coll EXCEPT ![CHOOSE i \in 1..Len(coll) :
                               coll[i]["title"] = doc["title"]] = new]
        ELSE Append(coll, new)

\* insert_one(doc): the store assigns _id to a document that has none.
InsertedId(coll) == NewObjectId(Len(coll) + 1)
InsertOne(coll, doc) ==
    Append(coll, [k \in DOMAIN doc \cup {"_id"} |->
                     IF k = "_id"
                     THEN (IF "_id" \in DOMAIN doc THEN doc[k]
                           ELSE JOid(InsertedId(coll)))
                     ELSE doc[k]])

\* find_one({"_id": oid}): the first match, or None.
FindOne(coll, oid) ==
    IF \E i \in 1..Len(coll) : coll[i]["_id"] = JOid(oid)
    THEN coll[CHOOSE i \in 1..Len(coll) :
                  /\ coll[i]["_id"] = JOid(oid)
                  /\ \A j \in 1..(i - 1) : coll[j]["_id"] # JOid(oid)]
    ELSE None

\* Mutant of FindLimit: the limit dropped.
FindNoLimit(coll, n) == coll

\* find().limit(n)
FindLimit(coll, n) == Take(coll, n)

\* list_collection_names(): a collection exists once it holds a document.
ListCollectionNames(coll) == IF Len(coll) > 0 THEN <<"product">> ELSE <<>>

\* --------------------------------------------------------- response shape
\* _product_to_dict
product_to_dict(doc) ==
    IF "_id" \in DOMAIN doc /\ Truthy(doc["_id"])
    THEN [k \in (DOMAIN doc \ {"_id"}) \cup {"id"} |->
             IF k = "id" THEN JStr(OidStr(doc["_id"].v)) ELSE doc[k]]
    ELSE doc

\* ------------------------------------------------------ requests a client sends
BodyFull ==
    [title |-> JStr("Orbit Mug"), description |-> JStr("Self-heating mug."),
     price |-> JNum(35), category |-> JStr("Kitchen"),
     in_stock |-> JBool(FALSE), image |-> JNull, badge |-> JStr("Sale")]
BodyMin ==
    [title |-> JStr("Pulse Pen"), price |-> JNum(12),
     category |-> JStr("Stationery")]
BodyNoTitle == [price |-> JNum(12), category |-> JStr("Stationery")]
BodyNoPrice == [title |-> JStr("Pulse Pen"), category |-> JStr("Stationery")]
BodyNoCategory == [title |-> JStr("Pulse Pen"), price |-> JNum(12)]
BodyBadPrice ==
    [title |-> JStr("Pulse Pen"), price |-> JStr("cheap"),
     category |-> JStr("Stationery")]
Bodies ==
    {BodyFull, BodyMin, BodyNoTitle, BodyNoPrice, BodyNoCategory, BodyBadPrice}

\* str.upper() of an identifier: the same 12 bytes, written in capitals.
Upper(s) == [i \in 1..Len(s) |-> UpperDigits[HexVal(s[i]) + 1]]

ZeroId == [i \in 1..24 |-> "0"]
\* Identifiers a client can put in the path: malformed ones, well-formed ones
\* no document has, and those of the first documents in either case.
PathIds(coll) ==
    {<<"a", "b", "c">>, [i \in 1..24 |-> "g"], [i \in 1..25 |-> "0"], ZeroId,
     Upper(OidStr(NewObjectId(1)))}
    \cup {OidStr(NewObjectId(n)) : n \in 1..(Len(coll) + 1)}

\* ------------------------------------------------------------------ state
VARIABLES
    db,        \* what "from database import db" yields in this deployment
    serial,    \* whether the server runs one request at a time
    product,   \* the documents of db["product"]
    pc,        \* each request context's position
    loc,       \* each request context's local variables
    last,      \* the request most recently answered, and its response
    created,   \* the objects that 201 responses have returned in this run
    seeded     \* whether a list request that counted 0 has inserted all seeds

vars == <<db, serial, product, pc, loc, last, created, seeded>>

\* A store call either returns or raises one of StoreErrors.
OK == [type |-> "ok"]
StoreOutcomes == {OK} \cup StoreErrors

NoLocals == [req |-> None, count |-> -1, ins |-> <<>>, ops |-> 0]
NoResponse == [kind |-> "none"]

\* The collection an earlier run leaves behind: a first list request seeded
\* it, then create requests added documents, all answered 201.
RECURSIVE Existing(_)
Existing(n) ==
    IF n = 0 THEN <<>>
    ELSE IF n <= Len(seed_products)
    THEN InsertOne(Existing(n - 1), seed_products[n])
    ELSE InsertOne(Existing(n - 1),
             model_dump(ParseProduct(IF n % 2 = 1 THEN BodyFull ELSE BodyMin)))

\* Create requests stop being sent once the collection holds MaxNew
\* documents more than it started with.
DocBound ==
    IF Len(product) >= ExistingDocs THEN ExistingDocs + MaxNew ELSE MaxNew

Init ==
    /\ db \in {"missing", "none", "ok"}
    /\ serial \in BOOLEAN
    /\ product \in {<<>>} \cup (IF db = "ok" THEN {Existing(ExistingDocs)} ELSE {})
    /\ pc = [p \in Procs |-> "idle"]
    /\ loc = [p \in Procs |-> NoLocals]
    /\ last = NoResponse
    /\ created = {}
    /\ seeded = (Len(product) >= Len(seed_products))

\* A request context takes a request when it is free and, on a server that
\* runs one request at a time, no other request is in flight.
CanStart(p) ==
    /\ last = NoResponse
    /\ pc[p] = "idle"
    /\ serial => \A q \in Procs : pc[q] = "idle"

\* The response the framework sends for a raised HTTPException.
ErrorResponse(e) == [status |-> e.status_code, body |-> [detail |-> e.detail]]

\* The status of an HTTPException raised in a handler's try block, else 0.
RaisedStatus(e) == IF e.type = "HTTPException" THEN e.status_code ELSE 0

\* p answers: the request and its response become the last one observed.
Respond(p, kind, request, response, l, e) ==
    /\ last' = [kind |-> kind, req |-> request, status |-> response.status,
                body |-> response.body, ops |-> l.ops, ins |-> l.ins,
                count |-> l.count,
                raised |-> RaisedStatus(e),
                fault |-> e \in StoreErrors]
    /\ pc' = [pc EXCEPT ![p] = "idle"]
    /\ loc' = [loc EXCEPT ![p] = NoLocals]

\* ---------------------------------------------------------- list_products
\* except Exception as e: raise HTTPException(500, str(e))
ListExcept(e, rendering) == HTTPException(500, Str(e, rendering))

\* Mutant of NeedsSeed: the emptiness check dropped.
NeedsSeedAlways(count) == TRUE

\* if count == 0
NeedsSeed(count) == count = 0

ListFail(p, l, e) ==
    /\ \E rendering \in StrRenderings :
          Respond(p, "list", None, ErrorResponse(ListExcept(e, rendering)), l, e)
    /\ UNCHANGED <<db, serial, product, created, seeded>>

\* The request arrives; import, then count_documents({}).
ListProducts(p) ==
    /\ CanStart(p)
    /\ IF db = "missing" THEN ListFail(p, NoLocals, IMPORT_ERROR)
       ELSE IF db = "none" THEN ListFail(p, NoLocals, NONE_SUBSCRIPT)
       ELSE \E f \in StoreOutcomes :
          LET l == [NoLocals EXCEPT !.ops = 1] IN
          IF f # OK THEN ListFail(p, l, f)
          ELSE LET count == CountDocuments(product) IN
               IF NeedsSeed(count) /\ db = "none"
               THEN ListFail(p, l, HTTPException(500, NOT_CONFIGURED))
               ELSE /\ pc' = [pc EXCEPT ![p] =
                         IF NeedsSeed(count) THEN "list_seed" ELSE "list_find"]
                    /\ loc' = [loc EXCEPT ![p] = [l EXCEPT !.count = count]]
                    /\ UNCHANGED <<db, serial, product, last, created, seeded>>

\* for p in seed_products: insert_one(p), one insert per step.
ListSeed(p) ==
    /\ last = NoResponse
    /\ pc[p] = "list_seed"
    /\ \E f \in StoreOutcomes :
          LET k == Len(loc[p].ins) + 1
              l == [loc[p] EXCEPT !.ops = @ + 1] IN
          IF f # OK THEN ListFail(p, l, f)
          ELSE /\ product' = InsertOne(product, seed_products[k])
               /\ loc' = [loc EXCEPT ![p] =
                             [l EXCEPT !.ins = Append(@, InsertedId(product))]]
               /\ pc' = [pc EXCEPT ![p] =
                            IF k = Len(seed_products) THEN "list_find"
                                                      ELSE "list_seed"]
               /\ seeded' = (seeded \/ k = Len(seed_products))
               /\ UNCHANGED <<db, serial, last, created>>

\* list(find().limit(24)), and the response.
ListFind(p) ==
    /\ last = NoResponse
    /\ pc[p] = "list_find"
    /\ \E f \in StoreOutcomes :
          LET l == [loc[p] EXCEPT !.ops = @ + 1] IN
          IF f # OK THEN ListFail(p, l, f)
          ELSE LET products == FindLimit(product, LIMIT) IN
               /\ Respond(p, "list", None,
                     [status |-> 200,
                      body |-> [i \in 1..Len(products) |->
                                   product_to_dict(products[i])]], l, OK)
               /\ UNCHANGED <<db, serial, product, created, seeded>>

\* --------------------------------------------------------- create_product
\* except Exception as e: raise HTTPException(500, str(e))
CreateExcept(e, rendering) == HTTPException(500, Str(e, rendering))

CreateFail(p, l, e) ==
    /\ \E rendering \in StrRenderings :
          Respond(p, "create", l.req,
                  ErrorResponse(CreateExcept(e, rendering)), l, e)
    /\ UNCHANGED <<db, serial, product, created, seeded>>

\* The response to a body that fails validation: the handler is not called.
Unprocessable(body) ==
    [status |-> 422, body |-> [detail |-> ValidationErrors(body)]]

\* The request arrives; validation, import, the None check, insert_one.
CreateProduct(p, body) ==
    /\ CanStart(p)
    /\ LET l == [NoLocals EXCEPT !.req = [json |-> body]] IN
       IF ValidationErrors(body) # {}
       THEN /\ Respond(p, "create", l.req, Unprocessable(body), l, OK)
            /\ UNCHANGED <<db, serial, product, created, seeded>>
       ELSE IF db = "missing" THEN CreateFail(p, l, IMPORT_ERROR)
       ELSE IF db = "none"
       THEN CreateFail(p, l, HTTPException(500, NOT_CONFIGURED))
       ELSE /\ Len(product) < DocBound
            /\ \E f \in StoreOutcomes :
                  LET l1 == [l EXCEPT !.ops = 1] IN
                  IF f # OK THEN CreateFail(p, l1, f)
                  ELSE LET data == model_dump(ParseProduct(body)) IN
                       /\ product' = InsertOne(product, data)
                       /\ loc' = [loc EXCEPT ![p] =
                             [l1 EXCEPT !.ins = <<InsertedId(product)>>]]
                       /\ pc' = [pc EXCEPT ![p] = "create_find"]
                       /\ UNCHANGED <<db, serial, last, created, seeded>>

\* POST /api/products with any of the bodies.
CreateRequest(p) == \E body \in Bodies : CreateProduct(p, body)

\* find_one({"_id": res.inserted_id}), and the 201 response.
CreateFind(p) ==
    /\ last = NoResponse
    /\ pc[p] = "create_find"
    /\ \E f \in StoreOutcomes :
          LET l == [loc[p] EXCEPT !.ops = @ + 1] IN
          IF f # OK THEN CreateFail(p, l, f)
          ELSE LET doc == FindOne(product, l.ins[1]) IN
               IF doc = None
               THEN CreateFail(p, l, PyError("TypeError",
                        <<"'", "N", "o", "n", "e", "T", "y", "p", "e", "'", " ", "o", "b", "j", "e", "c",
      "t", " ", "i", "s", " ", "n", "o", "t", " ", "i", "t", "e", "r", "a", "b", "l",
      "e">>))
               ELSE /\ Respond(p, "create", l.req,
                          [status |-> 201, body |-> product_to_dict(doc)],
                          l, OK)
                    /\ created' = created \cup {product_to_dict(doc)}
                    /\ UNCHANGED <<db, serial, product, seeded>>

\* ------------------------------------------------------------ get_product
\* Mutant of GetExcept: the handler's errors wrapped as the other two
\* handlers wrap theirs.
GetExceptWrapAll(e, rendering) == HTTPException(500, Str(e, rendering))

\* except HTTPException: raise
\* except Exception as e: raise HTTPException(500, str(e))
GetExcept(e, rendering) ==
    IF e.type = "HTTPException" THEN e
    ELSE HTTPException(500, Str(e, rendering))

\* Mutant of GetTry: the document returned as the store holds it.
GetTryRaw(module, coll, product_id, f) ==
    IF module = "missing" THEN [exc |-> IMPORT_ERROR, ops |-> 0]
    ELSE IF ~ObjectIdIsValid(product_id)
    THEN [exc |-> HTTPException(400, INVALID_ID), ops |-> 0]
    ELSE IF module = "none" THEN [exc |-> NONE_SUBSCRIPT, ops |-> 0]
    ELSE IF f # OK THEN [exc |-> f, ops |-> 1]
    ELSE LET doc == FindOne(coll, ObjectIdParse(product_id)) IN
         IF doc = None THEN [exc |-> HTTPException(404, NOT_FOUND), ops |-> 1]
         ELSE [exc |-> OK, value |-> doc, ops |-> 1]

\* The try block: what it raises or returns, and the store calls it made.
GetTry(module, coll, product_id, f) ==
    IF module = "missing" THEN [exc |-> IMPORT_ERROR, ops |-> 0]
    ELSE IF ~ObjectIdIsValid(product_id)
    THEN [exc |-> HTTPException(400, INVALID_ID), ops |-> 0]
    ELSE IF module = "none" THEN [exc |-> NONE_SUBSCRIPT, ops |-> 0]
    ELSE IF f # OK THEN [exc |-> f, ops |-> 1]
    ELSE LET doc == FindOne(coll, ObjectIdParse(product_id)) IN
         IF doc = None THEN [exc |-> HTTPException(404, NOT_FOUND), ops |-> 1]
         ELSE [exc |-> OK, value |-> product_to_dict(doc), ops |-> 1]

\* The whole handler: it makes one store call at most.
GetProduct(p, product_id) ==
    /\ CanStart(p)
    /\ \E f \in StoreOutcomes, rendering \in StrRenderings :
          LET t == GetTry(db, product, product_id, f)
              l == [NoLocals EXCEPT !.req = [product_id |-> product_id],
                                    !.ops = t.ops] IN
          Respond(p, "get", l.req,
                  IF t.exc = OK THEN [status |-> 200, body |-> t.value]
                  ELSE ErrorResponse(GetExcept(t.exc, rendering)),
                  l, t.exc)
    /\ UNCHANGED <<db, serial, product, created, seeded>>

\* GET /api/products/{product_id} with any of the identifiers.
GetRequest(p) == \E product_id \in PathIds(product) : GetProduct(p, product_id)

\* ---------------------------------------------------------- test_database
\* The glyphs that open the status texts are written as bracketed tags.
RUNNING == "[ok] Running"
NOT_AVAILABLE == <<"[", "x", "]", " ", "N", "o", "t", " ", "A", "v", "a", "i", "l", "a", "b", "l",
      "e">>
AVAILABLE == <<"[", "o", "k", "]", " ", "A", "v", "a", "i", "l", "a", "b", "l", "e">>
WORKING == <<"[", "o", "k", "]", " ", "C", "o", "n", "n", "e", "c", "t", "e", "d", " ", "&",
      " ", "W", "o", "r", "k", "i", "n", "g">>
CONNECTED_BUT_ERROR == <<"[", "!", "]", " ", " ", "C", "o", "n", "n", "e", "c", "t", "e", "d", " ", "b",
      "u", "t", " ", "E", "r", "r", "o", "r", ":", " ">>
NOT_INITIALIZED == <<"[", "!", "]", " ", " ", "A", "v", "a", "i", "l", "a", "b", "l", "e", " ", "b",
      "u", "t", " ", "n", "o", "t", " ", "i", "n", "i", "t", "i", "a", "l", "i", "z",
      "e", "d">>
MODULE_NOT_FOUND ==
    <<"[", "x", "]", " ", "D", "a", "t", "a", "b", "a", "s", "e", " ", "m", "o", "d",
      "u", "l", "e", " ", "n", "o", "t", " ", "f", "o", "u", "n", "d", " ", "(", "r",
      "u", "n", " ", "e", "n", "a", "b", "l", "e", "-", "d", "a", "t", "a", "b", "a",
      "s", "e", " ", "f", "i", "r", "s", "t", ")">>
ERROR_PREFIX == <<"[", "x", "]", " ", "E", "r", "r", "o", "r", ":", " ">>

\* db.name
DatabaseName == "appdb"

TestResponse ==
    [backend |-> RUNNING, database |-> NOT_AVAILABLE,
     database_url |-> JNull, database_name |-> JNull,
     connection_status |-> "Not Connected", collections |-> <<>>]

\* The inner try and its except clause: list_collection_names(), or the
\* error text cut to 50. What the block raises, and the report it leaves.
TestCollections(r, coll, f) ==
    IF f # OK
    THEN [exc |-> OK,
          value |-> [r EXCEPT !.database =
                        CONNECTED_BUT_ERROR \o Take(f.text, ERRLEN)]]
    ELSE [exc |-> OK,
          value |-> [r EXCEPT
                        !.collections = Take(ListCollectionNames(coll), SHOWN),
                        !.database = WORKING]]

\* The body of the outer try.
TestBody(module, coll, f) ==
    IF module = "missing" THEN [exc |-> IMPORT_ERROR, value |-> TestResponse]
    ELSE IF module = "none"
    THEN [exc |-> OK,
          value |-> [TestResponse EXCEPT !.database = NOT_INITIALIZED]]
    ELSE TestCollections(
            [TestResponse EXCEPT !.database = AVAILABLE,
                                 !.database_url = JStr("[ok] Configured"),
                                 !.database_name = JStr(DatabaseName),
                                 !.connection_status = "Connected"],
            coll, f)

\* Mutant of TestExcept: the outer try without its except clauses.
TestExceptNone(t) == t

\* except ImportError / except Exception as e
TestExcept(t) ==
    IF t.exc = OK THEN t
    ELSE IF t.exc.type = "ImportError"
    THEN [exc |-> OK, value |-> [t.value EXCEPT !.database = MODULE_NOT_FOUND]]
    ELSE [exc |-> OK,
          value |-> [t.value EXCEPT !.database =
                        ERROR_PREFIX \o Take(t.exc.text, ERRLEN)]]

\* The two environment checks that follow the try.
TestEnv(r, url, name) ==
    [r EXCEPT !.database_url = JStr(IF url THEN "[ok] Set" ELSE "[x] Not Set"),
              !.database_name = JStr(IF name THEN "[ok] Set" ELSE "[x] Not Set")]

\* The response to a handler that returned, or that let an exception out.
Serve(t) ==
    IF t.exc = OK THEN [status |-> 200, body |-> t.value]
    ELSE [status |-> 500, body |-> [detail |-> INTERNAL_ERROR]]

\* The whole handler: it makes one store call at most. url and name say
\* whether DATABASE_URL and DATABASE_NAME are set in the environment.
TestDatabase(p) ==
    /\ CanStart(p)
    /\ \E f \in StoreOutcomes, url \in BOOLEAN, name \in BOOLEAN :
          LET t == TestExcept(TestBody(db, product, f))
              l == [NoLocals EXCEPT !.ops = IF db = "ok" THEN 1 ELSE 0] IN
          Respond(p, "test", None,
                  Serve([t EXCEPT !.value = TestEnv(t.value, url, name)]), l,
                  IF db = "ok" THEN f ELSE OK)
    /\ UNCHANGED <<db, serial, product, created, seeded>>

\* ---------------------------------------------------------- specification
\* The framework sends the response that a handler produced; the requests
\* that follow see none pending.
Deliver ==
    /\ last # NoResponse
    /\ last' = NoResponse
    /\ UNCHANGED <<db, serial, product, pc, loc, created, seeded>>

Next ==
    \/ Deliver
    \/ \E p \in Procs :
        \/ ListProducts(p)
        \/ ListSeed(p)
        \/ ListFind(p)
        \/ CreateRequest(p)
        \/ CreateFind(p)
        \/ GetRequest(p)
        \/ TestDatabase(p)

Spec == Init /\ [][Next]_vars

\* ================================================================ claims
\* sub in s
Contains(s, sub) ==
    \E i \in 0..(Len(s) - Len(sub)) : SubSeq(s, i + 1, i + Len(sub)) = sub

StartsWith(s, pre) == Len(pre) <= Len(s) /\ SubSeq(s, 1, Len(pre)) = pre

IsPrefix(s, t) == Len(s) <= Len(t) /\ SubSeq(t, 1, Len(s)) = s

\* The titles of the four seed records, as the specification names them.
SeedTitles == <<"Aurora Cube Lamp", "Nebula Headphones", "Quantum Desk Mat",
                "Flux Mechanical Keyboard">>

\* The titles of the documents a request inserted, in order.
InsertedTitles(ids) ==
    [i \in 1..Len(ids) |-> FindOne(product, ids[i])["title"].v]

\* The titles a list response carries.
BodyTitles(body) == {body[i]["title"].v : i \in 1..Len(body)}

\* How many documents of the collection carry a title.
Copies(title) ==
    Cardinality({i \in 1..Len(product) : product[i]["title"] = JStr(title)})

RequiredFields == {"title", "price", "category"}

\* --------------------------------------------------------------------- C1
\* C1, as stated: a GET of an identifier that a 201 response returned, after
\* any further requests, answers 200 with the object the create returned.
C1_RoundTripAlways ==
    \A o \in created :
        (last.kind = "get" /\ JStr(last.req.product_id) = o["id"])
            => (last.status = 200 /\ last.body = o)

\* C1, amended: such a GET answers 200 with the object the create returned
\* unless its store lookup raises, and then it answers 500; it never answers
\* 404 or another object.
C1_RoundTrip ==
    \A o \in created :
        (last.kind = "get" /\ JStr(last.req.product_id) = o["id"])
            => IF last.fault THEN last.status = 500
               ELSE last.status = 200 /\ last.body = o

\* A created object read back after a later document was inserted.
C1_Witness ==
    /\ last.kind = "get" /\ last.status = 200
    /\ last.body \in created
    /\ Len(product) < ExistingDocs
    /\ last.body["id"] # JStr(OidStr(product[Len(product)]["_id"].v))

C3_InvalidIdIs400 ==
    (last.kind = "get" /\ ~ObjectIdIsValid(last.req.product_id))
        => (last.status = 400 /\ last.ops = 0)

\* --------------------------------------------------------------------- C4
\* C4: with the store handle absent, list, create (of a valid body) and get
\* (of a well-formed identifier) answer 500 with a message that says "not
\* configured".
C4_NotConfigured ==
    (/\ db = "none"
     /\ \/ last.kind = "list"
        \/ last.kind = "create" /\ ValidationErrors(last.req.json) = {}
        \/ last.kind = "get" /\ ObjectIdIsValid(last.req.product_id))
        => /\ last.status = 500
           /\ Contains(last.body.detail, <<"n", "o", "t", " ", "c", "o", "n", "f", "i", "g", "u", "r", "e", "d">>)

\* --------------------------------------------------------------------- C5
\* C5, as stated: a GET with a well-formed identifier that matches no record
\* answers 404, and a 400 or 404 raised in the handler reaches the client
\* unchanged.
C5_NotFoundAlways ==
    /\ (/\ last.kind = "get" /\ ObjectIdIsValid(last.req.product_id)
        /\ FindOne(product, ObjectIdParse(last.req.product_id)) = None)
          => last.status = 404
    /\ (last.kind = "get" /\ last.raised \in {400, 404})
          => last.status = last.raised

\* C5, amended: a GET with a well-formed identifier that matches no record
\* answers 404 when the store is configured and the lookup does not raise,
\* and 500 otherwise; a 400 or 404 raised in the handler reaches the client
\* unchanged, never as a 500.
C5_NotFound ==
    /\ (/\ last.kind = "get" /\ ObjectIdIsValid(last.req.product_id)
        /\ FindOne(product, ObjectIdParse(last.req.product_id)) = None)
          => IF db = "ok" /\ ~last.fault
             THEN last.status = 404 /\ last.body.detail = NOT_FOUND
             ELSE last.status = 500
    /\ (last.kind = "get" /\ last.raised \in {400, 404})
          => last.status = last.raised

\* A lookup that found nothing, answered 404.
C5_Witness ==
    /\ last.kind = "get" /\ last.req.product_id = ZeroId
    /\ last.raised = 404 /\ last.status = 404 /\ last.ops = 1

\* --------------------------------------------------------------------- C6
\* C6: a POST whose body lacks a required field is answered with a 4xx, by a
\* step that makes no store call and leaves the collection as it was.
C6_MissingField ==
    [][(/\ last'.kind = "create"
        /\ RequiredFields \ DOMAIN last'.req.json # {})
          => /\ last'.status \in 400..499
             /\ last'.ops = 0 /\ last'.ins = <<>>
             /\ product' = product]_vars

\* A body without a title, rejected.
C6_Witness ==
    /\ last.kind = "create" /\ "title" \notin DOMAIN last.req.json
    /\ last.status = 422 /\ "title" \in last.body.detail

\* --------------------------------------------------------------------- C7
\* C7: a list response with status 200 never carries more than 24 records.
C7_AtMost24 ==
    (last.kind = "list" /\ last.status = 200) => Len(last.body) <= 24

\* A list of a collection that holds more than 24 documents.
C7_Witness ==
    /\ last.kind = "list" /\ last.status = 200
    /\ Len(product) > 24 /\ Len(last.body) = 24

\* --------------------------------------------------------------------- C8
\* C8: GET /test always answers 200; a missing store module, an absent
\* handle or a failing collection listing shows in the report's database
\* field as an error state.
C8_TestAlways200 ==
    last.kind = "test"
        => /\ last.status = 200
           /\ db = "missing" => last.body.database = MODULE_NOT_FOUND
           /\ db = "none" => last.body.database = NOT_INITIALIZED
           /\ last.fault
                => /\ StartsWith(last.body.database, CONNECTED_BUT_ERROR)
                   /\ Len(last.body.database)
                        <= Len(CONNECTED_BUT_ERROR) + 50
           /\ (db # "ok" \/ last.fault)
                => /\ last.body.database # WORKING
                   /\ last.body.collections = <<>>

\* The collection listing raised, and the report says so.
C8_Witness ==
    /\ last.kind = "test" /\ last.fault /\ last.status = 200
    /\ StartsWith(last.body.database, CONNECTED_BUT_ERROR)

\* --------------------------------------------------------------------- C9
\* C9: no step removes or changes a persisted document; a step adds one
\* document at most; a get request writes nothing; a list request writes
\* only after it counted 0; a create answered 201 inserted exactly one.
C9_OnlyGrows ==
    [][/\ IsPrefix(product, product')
       /\ Len(product') <= Len(product) + 1
       /\ last'.kind \in {"get", "test"} => product' = product
       /\ \A p \in Procs :
            (pc[p] \in {"list_seed", "list_find"} /\ loc'[p] # loc[p]
                /\ product' # product) => loc[p].count = 0
       /\ (last'.kind = "list" /\ last'.count # 0) => last'.ins = <<>>
       /\ (last'.kind = "create" /\ last'.status = 201)
            => /\ Len(last'.ins) = 1
               /\ FindOne(product', last'.ins[1]) # None]_vars

\* Seeds and a created document side by side, the create answered 201.
C9_Witness ==
    /\ last.kind = "create" /\ last.status = 201
    /\ seeded /\ Len(product) < ExistingDocs /\ Len(product) > 4

\* -------------------------------------------------------------------- C10
\* C10: when requests are served one at a time the collection never holds
\* two copies of a seed record; that interleaved list requests do produce
\* duplicates is the reachable state C10_Witness.
C10_SerialNoDuplicates ==
    serial => \A i \in 1..4 : Copies(SeedTitles[i]) <= 1

\* Two list requests that each counted 0 and each inserted the four seeds.
C10_Witness ==
    /\ ~serial
    /\ \E p, q \in Procs :
          /\ p # q
          /\ \A r \in {p, q} :
                /\ pc[r] = "list_find"
                /\ loc[r].count = 0 /\ Len(loc[r].ins) = 4
    /\ \A i \in 1..4 : Copies(SeedTitles[i]) = 2

====
